---------------------------- MODULE Spec2Model ----------------------------
(***************************************************************************)
(* A model of parquet-rs's bit-level serialization layer:                  *)
(*   src/src/util/bit_util.rs   BitWriter, BitReader, ceil, trailing_bits  *)
(*   src/src/util/memory.rs     buffers and the memory pool                *)
(*                                                                         *)
(* A 64-bit machine word (u64, or i64 in two's complement) is modelled as  *)
(* the set of the positions of its one bits, a subset of 0..63: the width  *)
(* is kept exactly, shifts drop the bits that leave the word, and no       *)
(* arithmetic is done on numbers wider than TLC's integers.  A byte is a   *)
(* number in 0..255, a Vec<u8> a sequence of bytes (index i of the code is *)
(* index i+1 of the sequence).                                             *)
(***************************************************************************)
EXTENDS Integers, Sequences, FiniteSets, TLC

VARIABLES
  writer,   \* the BitWriter: buffer, max_bytes, buffered_values, byte_offset, bit_offset
  reader,   \* the BitReader: buffer, buffered_values, byte_offset, bit_offset, total_bytes
  phase,    \* "write" | "read" | "panicked" (an assert! failed: the thread unwinds),
            \* "idle" when neither a writer nor a reader is in use
  wlog,     \* the calls made on the writer since it was last empty, with their results
  expect,   \* the calls that produced the buffer the reader is bound to
  rlog,     \* the calls made on the reader since new/reset, with their results
  last,     \* the most recent call: its arguments and its result
  mode,     \* how the instance is driven: "roundtrip", "patch", "bool" and "wire"
            \* (the calls are logged and the reads mirror the writes), "capacity",
            \* "fill", "reader" or "reset" (a reader that is rebound); "memory"
            \* and "ceil" for memory.rs and ceil
  pool,     \* the MemoryPool: arena, cur_bytes_allocated, max_bytes_allocated
  byte_buffer,  \* the ByteBuffer: its Vec<u8> (data and capacity)
  arith     \* the most recent call of ceil: value, divisor and result

vars == <<writer, reader, phase, wlog, expect, rlog, last, mode, pool, byte_buffer, arith>>

\* The objects of memory.rs and the arguments of ceil.
aside == <<pool, byte_buffer, arith>>

logging == mode \in {"roundtrip", "patch", "bool", "wire"}

-----------------------------------------------------------------------------
(* Machine words as sets of bit positions.                                 *)

Word == 0..63

Zero64 == {}

AllOnes64 == Word

Shl(x, n) == {j \in Word : (j - n) \in x}

Shr(x, n) == {j \in Word : (j + n) \in x}

BitXor(x, y) == (x \ y) \cup (y \ x)

\* v >> 63 on an i64: the arithmetic shift copies the sign bit everywhere.
AShr63(v) == IF 63 \in v THEN AllOnes64 ELSE Zero64

\* -(b as i64) for b in {0, 1}.
NegBit(b) == IF 0 \in b THEN AllOnes64 ELSE Zero64

LowBits(n) == {j \in Word : j < n}

\* Byte k of a word with its bits in the opposite order (bit 0 on top).
ByteOf_reversed(x, k) ==
  LET b(i) == IF (8 * k + i) \in x THEN 2 ^ (7 - i) ELSE 0
  IN  b(0) + b(1) + b(2) + b(3) + b(4) + b(5) + b(6) + b(7)

\* Byte k (0 = least significant) of a word, as a number.
ByteOf(x, k) ==
  LET b(i) == IF (8 * k + i) \in x THEN 2 ^ i ELSE 0
  IN  b(0) + b(1) + b(2) + b(3) + b(4) + b(5) + b(6) + b(7)

BitsOfByte(b) == {i \in 0..7 : (b \div (2 ^ i)) % 2 = 1}

\* The word whose byte k is bytes[k+1]; bytes has at most 8 elements.
WordOfBytes(bytes) ==
  {j \in Word : (j \div 8) < Len(bytes) /\ (j % 8) \in BitsOfByte(bytes[(j \div 8) + 1])}

\* A small natural number as a word.
FromNat(n) == {j \in 0..30 : (n \div (2 ^ j)) % 2 = 1}

Min(a, b) == IF a < b THEN a ELSE b

-----------------------------------------------------------------------------
(* Free functions of bit_util.rs.                                          *)

\* Rust's integer division truncates toward zero and % takes the sign of
\* the dividend; TLA+'s \div and % round down.
RustDiv(a, b) ==
  IF a >= 0 THEN a \div b ELSE -((-a) \div b)

RustRem(a, b) == a - b * RustDiv(a, b)

\* A ceil that rounds toward zero.
ceil_truncating(value, divisor) == RustDiv(value, divisor)

ceil(value, divisor) ==
  LET result == RustDiv(value, divisor)
  IN  IF RustRem(value, divisor) # 0 THEN result + 1 ELSE result

\* A trailing_bits that forgets to mask.
trailing_bits_unmasked(v, num_bits) == v

trailing_bits(v, num_bits) ==
  IF num_bits = 0 THEN Zero64
  ELSE IF num_bits >= 64 THEN v
  ELSE LET n == 64 - num_bits IN Shr(Shl(v, n), n)

\* memcpy_value(&source, num_bytes, &mut target): the first num_bytes bytes of
\* target become the low-order bytes of source (little-endian).  The caller has
\* checked the assert target.len() >= num_bytes.
memcpy_value(source, num_bytes, target) ==
  [i \in 1..Len(target) |-> IF i <= num_bytes THEN ByteOf(source, i - 1) ELSE target[i]]

\* read_num_bytes!(ty, size, src): size bytes of src into a zeroed value.
read_num_bytes(size, src) == WordOfBytes(SubSeq(src, 1, size))

\* target with target[at..at+Len(piece)) replaced by piece (at is 0-based).
Splice(target, at, piece) ==
  [i \in 1..Len(target) |->
     IF i > at /\ i <= at + Len(piece) THEN piece[i - at] ELSE target[i]]

Zeros(n) == [i \in 1..n |-> 0]

-----------------------------------------------------------------------------
(* BitWriter.  Every operation is a function from the writer to an outcome *)
(* [w, ok, ret, panic]: the writer afterwards, whether the call reported   *)
(* success, the value it returned, and whether an assert! failed (then the *)
(* call never returns and w is the state at the failed assertion).         *)

BitWriter_new(max_bytes) ==
  [buffer |-> Zeros(max_bytes), max_bytes |-> max_bytes,
   buffered_values |-> Zero64, byte_offset |-> 0, bit_offset |-> 0]

Outcome(w, ok, ret, panic) == [w |-> w, ok |-> ok, ret |-> ret, panic |-> panic]

bytes_written(w) == w.byte_offset + ceil(w.bit_offset, 8)

\* The writer after the memcpy of the low num_bytes bytes of src at offset at.
WriteAt(w, at, src, num_bytes) ==
  [w EXCEPT !.buffer =
     Splice(w.buffer, at, SubSeq(memcpy_value(src, num_bytes, Zeros(num_bytes)), 1, num_bytes))]

\* A flush that leaves the bits it has written in the staging register.
flush_keeping(w) ==
  LET num_bytes == ceil(w.bit_offset, 8) IN
  IF ~(w.byte_offset + num_bytes <= w.max_bytes)
  THEN Outcome(w, FALSE, 0, TRUE)
  ELSE Outcome([WriteAt(w, w.byte_offset, w.buffered_values, num_bytes)
                  EXCEPT !.bit_offset = 0,
                         !.byte_offset = w.byte_offset + num_bytes],
               TRUE, 0, FALSE)

flush(w) ==
  LET num_bytes == ceil(w.bit_offset, 8) IN
  IF ~(w.byte_offset + num_bytes <= w.max_bytes)
  THEN Outcome(w, FALSE, 0, TRUE)
  ELSE Outcome([WriteAt(w, w.byte_offset, w.buffered_values, num_bytes)
                  EXCEPT !.buffered_values = Zero64,
                         !.bit_offset = 0,
                         !.byte_offset = w.byte_offset + num_bytes],
               TRUE, 0, FALSE)

\* A skip that reports the lack of room without having flushed.
skip_checked_first(w, num_bytes) ==
  LET f == flush(w) IN
  IF f.panic THEN f
  ELSE IF ~(f.w.byte_offset < f.w.max_bytes) THEN Outcome(f.w, FALSE, 0, TRUE)
  ELSE IF f.w.byte_offset + num_bytes > f.w.max_bytes THEN Outcome(w, FALSE, 0, FALSE)
  ELSE Outcome([f.w EXCEPT !.byte_offset = f.w.byte_offset + num_bytes],
               TRUE, f.w.byte_offset, FALSE)

skip(w, num_bytes) ==
  LET f == flush(w) IN
  IF f.panic THEN f
  ELSE IF ~(f.w.byte_offset < f.w.max_bytes) THEN Outcome(f.w, FALSE, 0, TRUE)
  ELSE IF f.w.byte_offset + num_bytes > f.w.max_bytes THEN Outcome(f.w, FALSE, 0, FALSE)
  ELSE Outcome([f.w EXCEPT !.byte_offset = f.w.byte_offset + num_bytes],
               TRUE, f.w.byte_offset, FALSE)

\* The slice returned is buffer[ret .. ret + num_bytes).
get_next_byte_ptr(w, num_bytes) == skip(w, num_bytes)

\* A put_value that never finds the writer full.
NoRoom_never(w, num_bits) == FALSE

\* The room test with >= for >.
NoRoom_inclusive(w, num_bits) ==
  w.byte_offset * 8 + w.bit_offset + num_bits >= w.max_bytes * 8

\* put_value's test that the bits do not fit.
NoRoom(w, num_bits) ==
  w.byte_offset * 8 + w.bit_offset + num_bits > w.max_bytes * 8

\* A put_value that clears the staging register at the 64-bit boundary and
\* forgets the bits that did not fit.
put_value_nocarry(w, v, num_bits) ==
  IF ~(num_bits <= 32) \/ Shr(v, num_bits) # Zero64
  THEN Outcome(w, FALSE, 0, TRUE)
  ELSE IF NoRoom(w, num_bits)
  THEN Outcome(w, FALSE, 0, FALSE)
  ELSE
    LET filled == w.buffered_values \cup Shl(v, w.bit_offset)
        bit_offset == w.bit_offset + num_bits
    IN  IF bit_offset >= 64
        THEN Outcome([WriteAt(w, w.byte_offset, filled, 8)
                        EXCEPT !.byte_offset = w.byte_offset + 8,
                               !.bit_offset = bit_offset - 64,
                               !.buffered_values = Zero64],
                     TRUE, 0, FALSE)
        ELSE Outcome([w EXCEPT !.buffered_values = filled, !.bit_offset = bit_offset],
                     TRUE, 0, FALSE)

put_value(w, v, num_bits) ==
  IF ~(num_bits <= 32) \/ Shr(v, num_bits) # Zero64
  THEN Outcome(w, FALSE, 0, TRUE)
  ELSE IF NoRoom(w, num_bits)
  THEN Outcome(w, FALSE, 0, FALSE)
  ELSE
    LET filled == w.buffered_values \cup Shl(v, w.bit_offset)
        bit_offset == w.bit_offset + num_bits
    IN  IF bit_offset >= 64
        THEN LET carried == bit_offset - 64
                 stored == WriteAt(w, w.byte_offset, filled, 8)
             IN  Outcome([stored EXCEPT !.byte_offset = w.byte_offset + 8,
                                        !.bit_offset = carried,
                                        !.buffered_values = Shr(v, num_bits - carried)],
                         TRUE, 0, carried >= 64)
        ELSE Outcome([w EXCEPT !.buffered_values = filled, !.bit_offset = bit_offset],
                     TRUE, 0, FALSE)

put_aligned(w, val, num_bytes) ==
  LET result == get_next_byte_ptr(w, num_bytes) IN
  IF result.panic \/ ~result.ok THEN result
  ELSE Outcome(WriteAt(result.w, result.ret, val, num_bytes), TRUE, 0, FALSE)

\* A put_aligned_offset that flushes the pending bits first, as put_aligned does.
put_aligned_offset_flushing(w, val, num_bytes, offset) ==
  IF num_bytes + offset > w.max_bytes
  THEN Outcome(w, FALSE, 0, FALSE)
  ELSE Outcome(WriteAt(flush(w).w, offset, val, num_bytes), TRUE, 0, FALSE)

\* A put_aligned_offset that copies the whole of val, whatever num_bytes is.
put_aligned_offset_whole(w, val, num_bytes, offset) ==
  IF num_bytes + offset > w.max_bytes
  THEN Outcome(w, FALSE, 0, FALSE)
  ELSE Outcome(WriteAt(w, offset, val, 8), TRUE, 0, FALSE)

put_aligned_offset(w, val, num_bytes, offset) ==
  IF num_bytes + offset > w.max_bytes
  THEN Outcome(w, FALSE, 0, FALSE)
  ELSE Outcome(WriteAt(w, offset, val, num_bytes), TRUE, 0, FALSE)

\* The loop test with the mask 0xFFFFFFFFFFFFFF00.
HasHighGroup_byte(v) == \E j \in v : j >= 8

\* v & 0xFFFFFFFFFFFFFF80 != 0
HasHighGroup(v) == \E j \in v : j >= 7

RECURSIVE vlq_loop(_, _, _)
vlq_loop(w, v, result) ==
  IF HasHighGroup(v)
  THEN LET p == put_aligned(w, (v \cap LowBits(7)) \cup {7}, 1) IN
       IF p.panic THEN p
       ELSE vlq_loop(p.w, Shr(v, 7), result /\ p.ok)
  ELSE LET p == put_aligned(w, v \cap LowBits(7), 1) IN
       IF p.panic THEN p
       ELSE Outcome(p.w, result /\ p.ok, 0, FALSE)

\* A put_vlq_int that writes at most five groups, as the reader accepts.
put_vlq_int_capped(w, v) == vlq_loop(w, v \cap LowBits(35), TRUE)

put_vlq_int(w, v) == vlq_loop(w, v, TRUE)

\* The zigzag map with a logical shift of the sign.
zigzag_logical(v) == BitXor(Shl(v, 1), Shr(v, 63))

\* ((v << 1) ^ (v >> 63)) as u64
zigzag(v) == BitXor(Shl(v, 1), AShr63(v))

put_zigzag_vlq_int(w, v) == put_vlq_int(w, zigzag(v))

\* A consume that truncates without flushing the pending bits.
consume_unflushed(w) ==
  Outcome(BitWriter_new(w.max_bytes), TRUE, SubSeq(w.buffer, 1, w.byte_offset), FALSE)

\* ret is the Vec<u8> handed to ByteBufferPtr::new.
consume(w) ==
  LET f == flush(w) IN
  IF f.panic THEN f
  ELSE Outcome(BitWriter_new(w.max_bytes), TRUE,
               SubSeq(f.w.buffer, 1, f.w.byte_offset), FALSE)

-----------------------------------------------------------------------------
(* ByteBufferPtr: a view (start, len) of a shared, immutable Vec<u8>.      *)

ByteBufferPtr_new(v) == [data |-> v, start |-> 0, len |-> Len(v)]

\* The view from start on, sharing the same data.
start_from(b, start) == [data |-> b.data, start |-> b.start + start, len |-> b.len - start]

as_ref(b) == SubSeq(b.data, b.start + 1, b.start + b.len)

-----------------------------------------------------------------------------
(* BitReader.  An outcome is [r, ok, ret, err, panic]: the reader          *)
(* afterwards, Ok or Err, the value of Ok (a word), the message of Err,    *)
(* and whether an assert! (or an unsigned subtraction) failed.             *)

\* The limit a 64-bit value would need.
MaxVlqByteLen64 == 2 * 5

MAX_VLQ_BYTE_LEN == 5

NotEnough == "Not enough bytes left"

TooLong == "Num of bytes exceed MAX_VLQ_BYTE_LEN"

ROk(r, ret) == [r |-> r, ok |-> TRUE, ret |-> ret, err |-> "", panic |-> FALSE]

RErr(r, err) == [r |-> r, ok |-> FALSE, ret |-> Zero64, err |-> err, panic |-> FALSE]

RPanic(r) == [r |-> r, ok |-> FALSE, ret |-> Zero64, err |-> "", panic |-> TRUE]

BitReader_new(buffer) ==
  LET total_bytes == buffer.len
      num_bytes == Min(8, total_bytes)
  IN  [buffer |-> buffer,
       buffered_values |-> read_num_bytes(num_bytes, as_ref(buffer)),
       byte_offset |-> 0, bit_offset |-> 0, total_bytes |-> total_bytes]

\* A reset that rebinds the buffer and keeps the position in the window.
reset_keeping_bit_offset(r, buffer) ==
  LET total_bytes == buffer.len
      num_bytes == Min(8, total_bytes)
  IN  [r EXCEPT !.buffer = buffer,
                !.total_bytes = total_bytes,
                !.buffered_values = read_num_bytes(num_bytes, as_ref(buffer)),
                !.byte_offset = 0]

reset(r, buffer) ==
  LET total_bytes == buffer.len
      num_bytes == Min(8, total_bytes)
  IN  [r EXCEPT !.buffer = buffer,
                !.total_bytes = total_bytes,
                !.buffered_values = read_num_bytes(num_bytes, as_ref(buffer)),
                !.byte_offset = 0,
                !.bit_offset = 0]

get_byte_offset(r) == r.byte_offset + (r.bit_offset \div 8) + 1

\* A window that is not reloaded when the cursor moves on.
Window_stale(r, byte_offset) == r.buffered_values

\* The window of up to 8 bytes at byte_offset, as get_value and get_aligned load it.
Window(r, byte_offset) ==
  read_num_bytes(Min(r.total_bytes - byte_offset, 8),
                 as_ref(start_from(r.buffer, byte_offset)))

\* A get_value that takes nothing from the window it loads at the 64-bit boundary.
get_value_one_window(r, num_bits) ==
  IF ~(num_bits <= 32) THEN RPanic(r)
  ELSE IF r.byte_offset * 8 + r.bit_offset + num_bits > r.total_bytes * 8
  THEN RErr(r, NotEnough)
  ELSE
    LET v == Shr(trailing_bits(r.buffered_values, r.bit_offset + num_bits), r.bit_offset)
        bit_offset == r.bit_offset + num_bits
    IN  IF bit_offset >= 64
        THEN ROk([r EXCEPT !.byte_offset = r.byte_offset + 8,
                           !.bit_offset = bit_offset - 64,
                           !.buffered_values = Window(r, r.byte_offset + 8)],
                 v)
        ELSE ROk([r EXCEPT !.bit_offset = bit_offset], v)

get_value(r, num_bits) ==
  IF ~(num_bits <= 32) THEN RPanic(r)
  ELSE IF r.byte_offset * 8 + r.bit_offset + num_bits > r.total_bytes * 8
  THEN RErr(r, NotEnough)
  ELSE
    LET v == Shr(trailing_bits(r.buffered_values, r.bit_offset + num_bits), r.bit_offset)
        bit_offset == r.bit_offset + num_bits
    IN  IF bit_offset >= 64
        THEN LET byte_offset == r.byte_offset + 8
                 carried == bit_offset - 64
             IN  IF r.total_bytes - byte_offset < 0 THEN RPanic(r)
                 ELSE LET buffered_values == Window(r, byte_offset) IN
                      ROk([r EXCEPT !.byte_offset = byte_offset,
                                    !.bit_offset = carried,
                                    !.buffered_values = buffered_values],
                          v \cup Shl(trailing_bits(buffered_values, carried),
                                     num_bits - carried))
        ELSE ROk([r EXCEPT !.bit_offset = bit_offset], v)

\* A get_aligned that moves to the byte boundary before it tests for room.
get_aligned_eager(r, num_bytes) ==
  LET at == r.byte_offset + ceil(r.bit_offset, 8)
      moved == [r EXCEPT !.byte_offset = at, !.bit_offset = 0]
  IN  IF at + num_bytes > r.total_bytes
      THEN RErr(moved, NotEnough)
      ELSE ROk([moved EXCEPT !.byte_offset = at + num_bytes,
                             !.buffered_values = Window(r, at + num_bytes)],
               read_num_bytes(num_bytes, as_ref(start_from(r.buffer, at))))

\* A get_aligned that starts at the byte the cursor is in.
get_aligned_same_byte(r, num_bytes) ==
  LET at == r.byte_offset + (r.bit_offset \div 8) IN
  IF at + num_bytes > r.total_bytes
  THEN RErr(r, NotEnough)
  ELSE ROk([r EXCEPT !.byte_offset = at + num_bytes,
                     !.bit_offset = 0,
                     !.buffered_values = Window(r, at + num_bytes)],
           read_num_bytes(num_bytes, as_ref(start_from(r.buffer, at))))

get_aligned(r, num_bytes) ==
  LET bytes_read == ceil(r.bit_offset, 8) IN
  IF r.byte_offset + bytes_read + num_bytes > r.total_bytes
  THEN RErr(r, NotEnough)
  ELSE
    LET at == r.byte_offset + bytes_read
        v == read_num_bytes(num_bytes, as_ref(start_from(r.buffer, at)))
        byte_offset == at + num_bytes
    IN  ROk([r EXCEPT !.byte_offset = byte_offset,
                      !.bit_offset = 0,
                      !.buffered_values = Window(r, byte_offset)],
            v)

RECURSIVE vlq_read(_, _, _)
vlq_read(r, shift, v) ==
  LET g == get_aligned(r, 1) IN
  IF ~g.ok THEN RErr(g.r, NotEnough)
  ELSE LET byte == g.ret
           v2 == v \cup Shl(byte \cap LowBits(7), shift)
           shift2 == shift + 7
       IN  IF shift2 > MAX_VLQ_BYTE_LEN * 7 THEN RErr(g.r, TooLong)
           ELSE IF 7 \notin byte THEN ROk(g.r, v2)
           ELSE vlq_read(g.r, shift2, v2)

get_vlq_int(r) == vlq_read(r, 0, Zero64)

\* ((u >> 1) as i64 ^ -((u & 1) as i64))
unzigzag(u) == BitXor(Shr(u, 1), NegBit(u \cap {0}))

get_zigzag_vlq_int(r) ==
  LET g == get_vlq_int(r) IN
  IF g.ok THEN ROk(g.r, unzigzag(g.ret)) ELSE g

-----------------------------------------------------------------------------
(* memory.rs.  A Vec<u8> is [data, capacity]: its bytes and the bytes it   *)
(* has allocated.  The allocator may hand out more than was asked for:     *)
(* spare is the number of bytes it adds, chosen by the caller of the model.*)

Max(a, b) == IF a > b THEN a ELSE b

\* vec![0; size]
vec_zeroed(size, spare) == [data |-> Zeros(size), capacity |-> size + spare]

\* Vec::resize(new_len, 0): truncates, or extends with zeros and reallocates
\* when the capacity does not suffice.
vec_resize(v, new_len, spare) ==
  IF new_len <= Len(v.data)
  THEN [v EXCEPT !.data = SubSeq(v.data, 1, new_len)]
  ELSE [data |-> v.data \o Zeros(new_len - Len(v.data)),
        capacity |-> IF new_len <= v.capacity THEN v.capacity ELSE new_len + spare]

ByteBuffer_new(size, spare) == [data |-> vec_zeroed(size, spare)]

ByteBuffer_data(b) == b.data.data

ByteBuffer_capacity(b) == b.data.capacity

ByteBuffer_size(b) == Len(b.data.data)

\* mut_data()[i] = byte, for i < size()
ByteBuffer_mut_data(b, i, byte) == [b EXCEPT !.data.data[i + 1] = byte]

ByteBuffer_set_data(b, new_data) == [b EXCEPT !.data = new_data]

\* A resize that only reserves: the capacity becomes new_cap, the bytes stay.
ByteBuffer_resize_reserving(b, new_cap, spare) ==
  [b EXCEPT !.data.capacity = Max(new_cap, Len(b.data.data))]

\* resize(new_cap); it returns Ok(()).
ByteBuffer_resize(b, new_cap, spare) == [b EXCEPT !.data = vec_resize(b.data, new_cap, spare)]

MemoryPool_new == [arena |-> <<>>, cur_bytes_allocated |-> 0, max_bytes_allocated |-> 0]

\* A consume that counts the bytes in use instead of the bytes allocated.
MemoryPool_consume_len(p, data) ==
  LET cur == p.cur_bytes_allocated + Len(data.data)
  IN  [arena |-> Append(p.arena, data),
       cur_bytes_allocated |-> cur,
       max_bytes_allocated |-> Max(p.max_bytes_allocated, cur)]

MemoryPool_consume(p, data) ==
  LET bytes_allocated == data.capacity
      cur == p.cur_bytes_allocated + bytes_allocated
  IN  [arena |-> Append(p.arena, data),
       cur_bytes_allocated |-> cur,
       max_bytes_allocated |-> Max(p.max_bytes_allocated, cur)]

MemoryPool_acquire(p, size, spare) == MemoryPool_consume(p, vec_zeroed(size, spare))

cur_allocated(p) == p.cur_bytes_allocated

max_allocated(p) == p.max_bytes_allocated

-----------------------------------------------------------------------------
(* Bounds and inputs.                                                      *)

\* Calls on the writer in a round-trip run.
MaxOps == 3

\* ceil is called with values in -CeilRange..CeilRange and divisors in
\* 1..MaxDivisor.
CeilRange == 20

MaxDivisor == 9

\* The bytes the allocator may add to an allocation.
Spare == {0, 1}

\* The sizes of the buffers acquired, created and resized to.
MemorySizes == {0, 1, 2, 3}

\* The vectors handed to MemoryPool::consume and ByteBuffer::set_data: empty,
\* full, and with room to spare.
GivenVecs ==
  { [data |-> <<>>, capacity |-> 0],
    [data |-> <<1, 2>>, capacity |-> 2],
    [data |-> <<9>>, capacity |-> 4] }

\* The single bits test_put_get_bool writes before it flushes.
BoolBits == 8

\* The calls a run may log before the writer is consumed.
OpsLimit == IF mode = "bool" THEN BoolBits ELSE MaxOps

\* The writer of a round-trip run: room for MaxOps calls of up to 8 bytes.
RoundTripBytes == 8 * MaxOps

\* The sizes of the writers whose capacity is exhausted.
SmallSizes == {0, 1, 2}

\* The sizes of the writers that put_value fills across the 64-bit boundary.
FillSizes == {1, 9}

Odd32 == {j \in 0..31 : j % 2 = 1}

\* <<v, num_bits>> with v < 2^num_bits: the values of a round-trip run, and
\* the fewer ones that fill a small writer.
ValueInputs ==
  IF mode = "bool" THEN { <<{0}, 1>>, <<{}, 1>> }
  ELSE IF mode = "wire" THEN { <<{0, 2}, 3>> }
  ELSE IF mode = "patch" THEN { <<{0, 2}, 3>>, <<Odd32, 32>> }
  ELSE IF logging
  THEN { <<{0}, 1>>, <<{}, 1>>, <<{0, 2}, 3>>, <<LowBits(7), 7>>,
         <<LowBits(31) \ {1}, 31>>, <<LowBits(32), 32>>, <<Odd32, 32>> }
  ELSE IF mode = "fill" THEN { <<LowBits(7), 7>>, <<LowBits(31), 31>>, <<LowBits(32), 32>> }
  ELSE { <<{0}, 1>>, <<LowBits(7), 7>>, <<LowBits(32), 32>> }

\* <<val, num_bytes>>: num_bytes is at most the size of val's type; 0x1FF is an
\* i32 written with num_bytes = 1, which drops its high-order bytes.
AlignedInputs ==
  IF mode = "wire" THEN { <<FromNat(42), 1>> }
  ELSE IF mode = "patch" THEN { <<FromNat(42), 1>>, <<{0, 9, 18, 27, 36, 45, 54, 63}, 8>> }
  ELSE IF logging
  THEN { <<FromNat(42), 1>>, <<FromNat(52085), 2>>, <<FromNat(511), 1>>,
         <<{0, 9, 18, 27, 36, 45, 54, 63}, 8>> }
  ELSE { <<FromNat(42), 1>>, <<FromNat(52085), 2>> }

\* 0, 137, 2^34, 2^35 - 1 (1, 2, 5, 5 groups) and 2^35 (6 groups); for the wire
\* format also 127, 128, 2^62, 2^63 and 2^64 - 1 (1, 2, 9, 10, 10 groups).
VlqInputs ==
  IF mode = "wire"
  THEN { {}, FromNat(127), FromNat(128), FromNat(137), {35}, {62}, {63}, AllOnes64 }
  ELSE IF mode = "patch" THEN { FromNat(137) }
  ELSE IF logging THEN { {}, FromNat(137), {34}, LowBits(35), {35} }
  ELSE { {}, FromNat(137) }

\* 0, -1, 1, -2, -2^34 (zigzag 2^35 - 1) and 2^34 (zigzag 2^35).
ZigzagInputs ==
  IF logging THEN { {}, AllOnes64, {0}, AllOnes64 \ {0}, Word \ LowBits(34), {34} }
  ELSE { AllOnes64, FromNat(64) }

SkipInputs == IF mode = "fill" THEN {1} ELSE IF mode = "patch" THEN {1, 2} ELSE {0, 1, 2, 4}

PatchValues == IF logging THEN { FromNat(16), FromNat(43981) } ELSE { FromNat(16) }

ReadWidths == {1, 3, 7, 31, 32}

ReadBytes == {0, 1, 2, 4, 8}

\* The buffers a reader is bound to directly: those of the tests of bit_util.rs,
\* and streams that end early or carry too many continuation bytes.
ExternalBuffers ==
  { <<>>,
    <<255, 0>>,
    <<117, 203>>,
    <<10, 0, 0, 0, 20, 0, 30, 0, 0, 0, 40, 0>>,
    <<137, 1, 242, 181, 6>>,
    <<137, 129, 242, 181, 6>>,
    <<137, 129, 242, 181, 134, 1>>,
    <<0, 1, 2, 3>>,
    <<137, 129>>,
    <<128, 128, 128, 128, 128>>,
    <<255, 255, 255, 255, 255, 255, 255>>,
    <<5, 255, 255, 255, 255, 127, 1>>,
    <<1, 2, 3, 4, 5, 6, 7, 200, 201, 202>> }

\* The buffers of a run that resets its reader: empty, the two bytes of
\* test_bit_reader_get_aligned, a truncated VLQ value and more than one window.
ResetBuffers ==
  { <<>>,
    <<117, 203>>,
    <<137, 129>>,
    <<10, 0, 0, 0, 20, 0, 30, 0, 0, 0, 40, 0>> }

-----------------------------------------------------------------------------
(* The state machine.                                                      *)

NoWriter == BitWriter_new(0)

NoReader == BitReader_new(ByteBufferPtr_new(<<>>))

Call(op, n, off, v, ok, err, ret, panic) ==
  [op |-> op, n |-> n, off |-> off, v |-> v, ok |-> ok, err |-> err, ret |-> ret,
   panic |-> panic]

NoCall == Call("new", 0, 0, Zero64, TRUE, "", Zero64, FALSE)

\* One logged call; from and to are the cursor, in bits, before and after it.
Entry(op, n, off, v, ok, ret, from, to) ==
  [op |-> op, n |-> n, off |-> off, v |-> v, ok |-> ok, ret |-> ret,
   from |-> from, to |-> to]

\* The cursor of a writer or a reader, in bits from the start of its buffer.
Cursor(x) == x.byte_offset * 8 + x.bit_offset

AllOk(log) == \A k \in 1..Len(log) : log[k].ok

CanWrite == phase = "write" /\ (logging => (Len(wlog) < OpsLimit /\ AllOk(wlog)))

\* The writer call op(n, off, v) with outcome o has been made.
WStep(op, n, off, v, o) ==
  /\ writer' = o.w
  /\ phase' = IF o.panic THEN "panicked" ELSE phase
  /\ last' = Call(op, n, off, v, o.ok, "", FromNat(o.ret), o.panic)
  /\ wlog' = IF logging
             THEN Append(wlog, Entry(op, n, off, v, o.ok /\ ~o.panic, o.ret,
                                     Cursor(writer), Cursor(o.w)))
             ELSE wlog
  /\ UNCHANGED <<reader, expect, rlog, mode, aside>>

PutValue ==
  /\ CanWrite
  /\ \E in \in ValueInputs : WStep("put_value", in[2], 0, in[1], put_value(writer, in[1], in[2]))

PutAligned ==
  /\ CanWrite
  /\ \E in \in AlignedInputs :
       WStep("put_aligned", in[2], 0, in[1], put_aligned(writer, in[1], in[2]))

PutVlqInt ==
  /\ CanWrite
  /\ \E v \in VlqInputs : WStep("put_vlq_int", 0, 0, v, put_vlq_int(writer, v))

PutZigzagVlqInt ==
  /\ CanWrite
  /\ \E v \in ZigzagInputs :
       WStep("put_zigzag_vlq_int", 0, 0, v, put_zigzag_vlq_int(writer, v))

Skip ==
  /\ CanWrite
  /\ \E n \in SkipInputs : WStep("skip", n, 0, Zero64, skip(writer, n))

\* get_next_byte_ptr(n), and the caller fills the slice it got with the low
\* bytes of v before the borrow ends (test_get_next_byte_ptr).
fill_next_byte_ptr(w, n, v) ==
  LET o == get_next_byte_ptr(w, n) IN
  IF o.ok /\ ~o.panic THEN [o EXCEPT !.w = WriteAt(o.w, o.ret, v, n)] ELSE o

GetNextBytePtr ==
  /\ CanWrite
  /\ \E n \in SkipInputs, v \in PatchValues :
       WStep("get_next_byte_ptr", n, 0, v, fill_next_byte_ptr(writer, n, v))

\* test_put_get_bool flushes once its BoolBits single bits are written.
Flush ==
  /\ IF mode = "bool"
     THEN phase = "write" /\ Len(wlog) = BoolBits /\ AllOk(wlog)
     ELSE CanWrite
  /\ WStep("flush", 0, 0, Zero64, flush(writer))

\* In a round-trip run the patch goes to a region an earlier skip reserved.
PatchTargets ==
  IF logging
  THEN { <<wlog[k].n, wlog[k].ret>> : k \in {i \in 1..Len(wlog) : wlog[i].op = "skip"} }
  ELSE { <<n, off>> \in {1, 2} \X (0..writer.max_bytes) : TRUE }

PutAlignedOffset ==
  /\ CanWrite
  /\ \E t \in PatchTargets, v \in PatchValues :
       WStep("put_aligned_offset", t[1], t[2], v, put_aligned_offset(writer, v, t[1], t[2]))

\* The calls of a log that put bytes into the stream, in order.
StreamOps(log) == SelectSeq(log, LAMBDA e : e.op # "put_aligned_offset")

\* BitReader::new(writer.consume())
Consume ==
  /\ phase = "write"
  /\ logging => AllOk(wlog)
  /\ LET o == consume(writer) IN
       /\ writer' = o.w
       /\ phase' = IF o.panic THEN "panicked" ELSE "read"
       /\ reader' = IF o.panic THEN reader ELSE BitReader_new(ByteBufferPtr_new(o.ret))
       /\ last' = Call("consume", 0, 0, Zero64, ~o.panic, "", Zero64, o.panic)
  /\ expect' = StreamOps(wlog)
  /\ wlog' = <<>>
  /\ rlog' = <<>>
  /\ UNCHANGED <<mode, aside>>

\* The read that mirrors a logged write: <<operation, argument>>.
Mirror(e) ==
  CASE e.op = "put_value" -> <<"get_value", e.n>>
    [] e.op = "put_aligned" -> <<"get_aligned", e.n>>
    [] e.op = "skip" -> <<"get_aligned", e.n>>
    [] e.op = "get_next_byte_ptr" -> <<"get_aligned", e.n>>
    [] e.op = "flush" -> <<"get_aligned", 0>>
    [] e.op = "put_vlq_int" -> <<"get_vlq_int", 0>>
    [] e.op = "put_zigzag_vlq_int" -> <<"get_zigzag_vlq_int", 0>>

MayRead(op, n) ==
  /\ phase = "read"
  /\ logging => /\ Len(rlog) < Len(expect)
                /\ Mirror(expect[Len(rlog) + 1]) = <<op, n>>

\* The reader call op(n) with outcome o has been made.
RStep(op, n, o) ==
  /\ reader' = o.r
  /\ phase' = IF o.panic THEN "panicked" ELSE phase
  /\ last' = Call(op, n, 0, Zero64, o.ok, o.err, o.ret, o.panic)
  /\ rlog' = IF logging
             THEN Append(rlog, Entry(op, n, 0, Zero64, o.ok, o.ret, Cursor(reader), Cursor(o.r)))
             ELSE rlog
  /\ UNCHANGED <<writer, wlog, expect, mode, aside>>

GetValue ==
  \E n \in ReadWidths : MayRead("get_value", n) /\ RStep("get_value", n, get_value(reader, n))

GetAligned ==
  \E n \in ReadBytes : MayRead("get_aligned", n) /\ RStep("get_aligned", n, get_aligned(reader, n))

GetVlqInt ==
  MayRead("get_vlq_int", 0) /\ RStep("get_vlq_int", 0, get_vlq_int(reader))

GetZigzagVlqInt ==
  MayRead("get_zigzag_vlq_int", 0)
    /\ RStep("get_zigzag_vlq_int", 0, get_zigzag_vlq_int(reader))

\* reader.reset(buffer), on a reader that is not mirroring a writer.
Reset ==
  /\ phase = "read"
  /\ ~logging
  /\ \E b \in (IF mode = "reset" THEN ResetBuffers ELSE ExternalBuffers) :
       /\ reader' = reset(reader, ByteBufferPtr_new(b))
       /\ last' = Call("reset", Len(b), 0, Zero64, TRUE, "", Zero64, FALSE)
  /\ UNCHANGED <<writer, phase, wlog, expect, rlog, mode, aside>>

\* pool.acquire(size)
Acquire ==
  /\ mode = "memory"
  /\ Len(pool.arena) < MaxOps
  /\ \E size \in MemorySizes, spare \in Spare :
       /\ pool' = MemoryPool_acquire(pool, size, spare)
       /\ last' = Call("acquire", size, 0, Zero64, TRUE, "", Zero64, FALSE)
  /\ UNCHANGED <<writer, reader, phase, wlog, expect, rlog, mode, byte_buffer, arith>>

\* pool.consume(data)
PoolConsume ==
  /\ mode = "memory"
  /\ Len(pool.arena) < MaxOps
  /\ \E data \in GivenVecs :
       /\ pool' = MemoryPool_consume(pool, data)
       /\ last' = Call("pool_consume", Len(data.data), 0, Zero64, TRUE, "", Zero64, FALSE)
  /\ UNCHANGED <<writer, reader, phase, wlog, expect, rlog, mode, byte_buffer, arith>>

\* The ByteBuffer call op(n) has left the buffer b.
BStep(op, n, b) ==
  /\ mode = "memory"
  /\ byte_buffer' = b
  /\ last' = Call(op, n, 0, Zero64, TRUE, "", Zero64, FALSE)
  /\ UNCHANGED <<writer, reader, phase, wlog, expect, rlog, mode, pool, arith>>

\* ByteBuffer::new(size)
BufferNew ==
  \E size \in MemorySizes, spare \in Spare :
    BStep("buffer_new", size, ByteBuffer_new(size, spare))

\* buffer.set_data(new_data)
BufferSetData ==
  \E data \in GivenVecs : BStep("set_data", Len(data.data), ByteBuffer_set_data(byte_buffer, data))

\* buffer.resize(new_cap)
BufferResize ==
  \E new_cap \in MemorySizes, spare \in Spare :
    BStep("resize", new_cap, ByteBuffer_resize(byte_buffer, new_cap, spare))

\* buffer.mut_data()[i] = 7
BufferWrite ==
  \E i \in 0..(ByteBuffer_size(byte_buffer) - 1) :
    BStep("mut_data", i, ByteBuffer_mut_data(byte_buffer, i, 7))

NoArith == [value |-> 0, divisor |-> 1, result |-> 0]

\* ceil(value, divisor)
Ceil ==
  /\ mode = "ceil"
  /\ \E value \in (-CeilRange)..CeilRange, divisor \in 1..MaxDivisor :
       arith' = [value |-> value, divisor |-> divisor, result |-> ceil(value, divisor)]
  /\ last' = Call("ceil", 0, 0, Zero64, TRUE, "", Zero64, FALSE)
  /\ UNCHANGED <<writer, reader, phase, wlog, expect, rlog, mode, pool, byte_buffer>>

-----------------------------------------------------------------------------
(* Specifications.                                                         *)

InitWith(w, r, ph, md) ==
  /\ writer = w
  /\ reader = r
  /\ phase = ph
  /\ mode = md
  /\ wlog = <<>>
  /\ expect = <<>>
  /\ rlog = <<>>
  /\ last = NoCall
  /\ pool = MemoryPool_new
  /\ byte_buffer = ByteBuffer_new(0, 0)
  /\ arith = NoArith

\* A fresh writer with room for every call, read back after consume().
InitRoundTrip == InitWith(BitWriter_new(RoundTripBytes), NoReader, "write", "roundtrip")

\* A fresh writer with room for every call, some of them patches.
InitPatch == InitWith(BitWriter_new(RoundTripBytes), NoReader, "write", "patch")

\* The writer of test_put_get_bool.
InitBool == InitWith(BitWriter_new(BoolBits), NoReader, "write", "bool")

\* A fresh writer with room for values of up to ten groups.
InitWire == InitWith(BitWriter_new(RoundTripBytes), NoReader, "write", "wire")

\* A fresh writer of a small size, driven until it is full and beyond.
InitWriter == \E k \in SmallSizes : InitWith(BitWriter_new(k), NoReader, "write", "capacity")

\* A fresh writer that put_value can carry over the 64-bit boundary and fill.
InitFill == \E k \in FillSizes : InitWith(BitWriter_new(k), NoReader, "write", "fill")

\* A reader over a buffer received from elsewhere.
InitReader ==
  \E b \in ExternalBuffers :
    InitWith(NoWriter, BitReader_new(ByteBufferPtr_new(b)), "read", "reader")

\* A reader that will be rebound to other buffers.
InitReset ==
  \E b \in ResetBuffers :
    InitWith(NoWriter, BitReader_new(ByteBufferPtr_new(b)), "read", "reset")

\* An empty pool and an empty buffer.
InitMemory == InitWith(NoWriter, NoReader, "idle", "memory")

\* Nothing but ceil is called.
InitCeil == InitWith(NoWriter, NoReader, "idle", "ceil")

Init ==
  \/ InitRoundTrip \/ InitPatch \/ InitBool \/ InitWire
  \/ InitWriter \/ InitFill \/ InitReader \/ InitReset \/ InitMemory \/ InitCeil

NextBits == PutValue \/ PutAligned \/ Consume \/ GetValue \/ GetAligned

NextVlq == PutVlqInt \/ PutZigzagVlqInt \/ Consume \/ GetVlqInt \/ GetZigzagVlqInt

NextPatch ==
  \/ Skip \/ GetNextBytePtr \/ PutAlignedOffset
  \/ PutValue \/ PutAligned \/ PutVlqInt \/ Flush \/ Consume

NextWriter ==
  \/ PutValue \/ PutAligned \/ PutAlignedOffset \/ Skip \/ GetNextBytePtr
  \/ PutVlqInt \/ PutZigzagVlqInt \/ Flush

NextFill == PutValue \/ Skip

NextBool == PutValue \/ Flush \/ Consume \/ GetValue \/ GetAligned

NextWire == PutVlqInt \/ PutAligned \/ PutValue

NextReader == GetValue \/ GetAligned \/ GetVlqInt \/ GetZigzagVlqInt

NextPool == Acquire \/ PoolConsume

NextBuffer == BufferNew \/ BufferSetData \/ BufferResize \/ BufferWrite

NextReset == NextReader \/ Reset

Next ==
  \/ NextWriter \/ Consume \/ NextReader \/ Reset
  \/ NextPool \/ NextBuffer \/ Ceil

Spec == Init /\ [][Next]_vars

\* put_value and put_aligned interleaved, then read back.
SpecBits == InitRoundTrip /\ [][NextBits]_vars

\* put_vlq_int and put_zigzag_vlq_int, then read back.
SpecVlq == InitRoundTrip /\ [][NextVlq]_vars

\* Reserved regions and their patches among other writes.
SpecPatch == InitPatch /\ [][NextPatch]_vars

\* Every writer operation on writers small enough to run out of room.
SpecWriter == InitWriter /\ [][NextWriter]_vars

\* put_value, skip and flush up to and beyond the end of the writer.
SpecFill == InitFill /\ [][NextFill]_vars

\* Single bits written, flushed and read back.
SpecBool == InitBool /\ [][NextBool]_vars

\* put_vlq_int of values of every length, between other writes.
SpecWire == InitWire /\ [][NextWire]_vars

\* Buffers acquired from and handed to a memory pool.
SpecPool == InitMemory /\ [][NextPool]_vars

\* A ByteBuffer created, replaced, resized and written.
SpecBuffer == InitMemory /\ [][NextBuffer]_vars

\* ceil on small values of both signs.
SpecCeil == InitCeil /\ [][Ceil]_vars

\* Every reader operation, and reset to another buffer at any point.
SpecReset == InitReset /\ [][NextReset]_vars

\* Every reader operation on buffers not produced by a writer.
SpecReader == InitReader /\ [][NextReader]_vars

-----------------------------------------------------------------------------
(* Round trips.                                                            *)

Reads == 1..Len(rlog)

OnlyOps(log, ops) == \A k \in 1..Len(log) : log[k].op \in ops

\* The k-th read gave back the value the k-th write was given.
SameValue(k) == rlog[k].ok /\ rlog[k].ret = expect[k].v

\* The k-th read moved the reader's cursor as the k-th write moved the writer's.
SameSpan(k) == rlog[k].from = expect[k].from /\ rlog[k].to = expect[k].to

\* C1: values written with put_value into a fresh writer with room for them are
\* returned unchanged and in order by get_value calls of the same widths on the
\* consumed buffer, also when a value lies across a byte boundary or across the
\* 64-bit boundary of the staging register.
RoundTripBitPacked ==
  (phase = "read" /\ OnlyOps(expect, {"put_value"}))
    => \A k \in Reads : SameValue(k)

\* Three values read back, the last of them across the 64-bit boundary.
RoundTripBitPackedWitness ==
  /\ phase = "read"
  /\ OnlyOps(expect, {"put_value"})
  /\ Len(rlog) = 3
  /\ expect[3].from < 64
  /\ expect[3].to > 64
  /\ \A k \in Reads : expect[k].v # Zero64

\* x fits in w bytes: put_aligned(x, w) writes a value of width w.
FitsBytes(x, w) == x \subseteq LowBits(8 * w)

\* C2: when put_value and put_aligned calls are interleaved and all succeed, the
\* mirrored get_value and get_aligned calls return every bit-packed value and
\* every aligned value of the written width unchanged, and each read moves the
\* cursor exactly as its write did: the bits padded before an aligned write are
\* the bits skipped before the aligned read.
RoundTripInterleaved ==
  (phase = "read" /\ OnlyOps(expect, {"put_value", "put_aligned"}))
    => \A k \in Reads :
         /\ rlog[k].ok
         /\ SameSpan(k)
         /\ expect[k].op = "put_value" => rlog[k].ret = expect[k].v
         /\ (expect[k].op = "put_aligned" /\ FitsBytes(expect[k].v, expect[k].n))
              => rlog[k].ret = expect[k].v

\* A value, an aligned value written after padding, and a value, all read back.
RoundTripInterleavedWitness ==
  /\ phase = "read"
  /\ Len(rlog) = 3
  /\ expect[1].op = "put_value"
  /\ expect[2].op = "put_aligned"
  /\ expect[3].op = "put_value"
  /\ expect[1].to % 8 # 0
  /\ expect[2].to - expect[1].to > 8 * expect[2].n
  /\ FitsBytes(expect[2].v, expect[2].n)
  /\ rlog[2].ret = expect[2].v

\* An unsigned value below 2^35: at most 5 base-128 groups.
FiveGroups(v) == v \subseteq LowBits(35)

\* A signed value in -2^34 .. 2^34 - 1: its zigzag image is below 2^35.
ZigzagFiveGroups(v) ==
  \/ \A j \in 34..63 : j \in v
  \/ \A j \in 34..63 : j \notin v

\* Every value of the log is one the decoder's 5-group limit admits.
Decodable(log) ==
  \A k \in 1..Len(log) :
    \/ log[k].op = "put_vlq_int" /\ FiveGroups(log[k].v)
    \/ log[k].op = "put_zigzag_vlq_int" /\ ZigzagFiveGroups(log[k].v)

\* C3: unsigned values below 2^35 written with put_vlq_int are returned in order
\* by get_vlq_int on the consumed buffer, each call consuming exactly the bytes
\* its value was encoded in.
RoundTripVlq ==
  (phase = "read" /\ Decodable(expect))
    => \A k \in Reads :
         expect[k].op = "put_vlq_int" => (SameValue(k) /\ SameSpan(k))

\* Three values read back, one of two groups and one of five.
RoundTripVlqWitness ==
  /\ phase = "read"
  /\ OnlyOps(expect, {"put_vlq_int"})
  /\ Decodable(expect)
  /\ Len(rlog) = 3
  /\ \E k \in Reads : expect[k].to - expect[k].from = 16
  /\ \E k \in Reads : expect[k].to - expect[k].from = 40 /\ 34 \in rlog[k].ret

\* The byte of the reader's buffer at bit position pos.
ByteAt(pos) == reader.buffer.data[(pos \div 8) + 1]

\* 0, -1, 1, -2 are written as the single bytes 0, 1, 2, 3.
SmallZigzag(k) ==
  /\ expect[k].v = Zero64 => (ByteAt(expect[k].from) = 0 /\ expect[k].to - expect[k].from = 8)
  /\ expect[k].v = AllOnes64 => (ByteAt(expect[k].from) = 1 /\ expect[k].to - expect[k].from = 8)
  /\ expect[k].v = {0} => (ByteAt(expect[k].from) = 2 /\ expect[k].to - expect[k].from = 8)
  /\ expect[k].v = AllOnes64 \ {0}
       => (ByteAt(expect[k].from) = 3 /\ expect[k].to - expect[k].from = 8)

\* C4: a signed value whose zigzag image is below 2^35, written with
\* put_zigzag_vlq_int, is returned by get_zigzag_vlq_int on the consumed buffer;
\* 0, -1, 1 and -2 are the bytes 0, 1, 2 and 3.
RoundTripZigzag ==
  (phase = "read" /\ Decodable(expect))
    => \A k \in Reads :
         expect[k].op = "put_zigzag_vlq_int" => (SameValue(k) /\ SmallZigzag(k))

\* -1, -2 and -2^34 read back.
RoundTripZigzagWitness ==
  /\ phase = "read"
  /\ OnlyOps(expect, {"put_zigzag_vlq_int"})
  /\ Len(rlog) = 3
  /\ expect[1].v = AllOnes64
  /\ expect[2].v = AllOnes64 \ {0}
  /\ expect[3].v = Word \ LowBits(34)
  /\ rlog[3].ret = expect[3].v

-----------------------------------------------------------------------------
(* Capacity exhaustion on the writer.                                      *)

\* The bytes a writer can still take: max_bytes less the bytes written, a
\* partly filled byte counted as written.
Remaining(w) == w.max_bytes - (Cursor(w) + 7) \div 8

\* The bytes put_vlq_int(v) writes: one per group of 7 bits, at least one.
VlqLen(v) == IF v = Zero64 THEN 1 ELSE ((CHOOSE j \in v : \A i \in v : i <= j) \div 7) + 1

\* The bytes the call c asks for.
Needed(c) == IF c.op = "put_vlq_int" THEN VlqLen(c.v) ELSE c.n

\* C5: a skip, get_next_byte_ptr, put_aligned or put_vlq_int that needs more
\* bytes than remain returns its failure value, in every writer state and also
\* on a writer that is exactly full; it does not abort, it leaves the committed
\* bytes as they were, and the writer stays usable.
CapacityExhaustionReported ==
  [][ (/\ last'.op \in {"skip", "get_next_byte_ptr", "put_aligned", "put_vlq_int"}
       /\ Needed(last') > Remaining(writer))
        => /\ ~last'.panic
           /\ ~last'.ok
           /\ phase' = "write"
           /\ SubSeq(writer'.buffer, 1, writer.byte_offset)
                = SubSeq(writer.buffer, 1, writer.byte_offset) ]_vars

-----------------------------------------------------------------------------
(* The reader on streams it cannot finish.                                 *)

\* The reader's cursor rounded up to a byte: where an aligned read starts.
AlignedAt(r) == (Cursor(r) + 7) \div 8

\* The bytes from at on (0-based) that carry the continuation bit, up to the
\* first that does not or to the end of the data.
Continuing(d, at) ==
  CHOOSE c \in 0..(Len(d) - at) :
    /\ \A i \in 1..c : d[at + i] >= 128
    /\ c = Len(d) - at \/ d[at + c + 1] < 128

\* The value of the groups of the len bytes of d from at on, low group first.
GroupsValue(d, at, len) ==
  UNION { {7 * (i - 1) + j : j \in BitsOfByte(d[at + i]) \ {7}} : i \in 1..len }

\* C6: get_vlq_int returns Ok only for an encoding of at most 5 bytes, and then
\* the value of its groups; with 5 continuation bytes and a 6th byte present it
\* fails with the MAX_VLQ_BYTE_LEN error; when the buffer ends before a byte
\* without the continuation bit (and before a 6th byte) it fails with "Not
\* enough bytes left"; a 5-byte encoding decodes to its 35-bit value.
VlqLengthLimit ==
  [][ last'.op = "get_vlq_int"
        => LET d == reader.buffer.data
               at == AlignedAt(reader)
               avail == Len(d) - at
               c == Continuing(d, at)
           IN  /\ last'.ok <=> (c <= 4 /\ c < avail)
               /\ last'.ok => last'.ret = GroupsValue(d, at, c + 1)
               /\ (c >= 5 /\ avail >= 6) => (~last'.ok /\ last'.err = TooLong)
               /\ (c = avail /\ avail <= 5) => (~last'.ok /\ last'.err = NotEnough)
               /\ (c = 4 /\ avail >= 5)
                    => (last'.ok /\ last'.ret \subseteq LowBits(35)
                          /\ Cursor(reader') = 8 * (at + 5)) ]_vars

\* The 6-byte encoding of test_bit_reader_get_vlq_int_overflow has been refused.
VlqLengthLimitWitness ==
  /\ last.op = "get_vlq_int"
  /\ ~last.ok
  /\ last.err = TooLong
  /\ reader.buffer.data = <<137, 129, 242, 181, 134, 1>>

\* C7: get_value(n) fails exactly when fewer than n bits remain, get_aligned(w)
\* exactly when fewer than w bytes remain after the cursor is rounded up to a
\* byte, and a failed call leaves byte_offset, bit_offset and buffered_values
\* (the whole reader) as they were, so that the next read is not affected.
ReaderUnderrunKeepsState ==
  [][ LET d == reader.buffer.data IN
      /\ last'.op = "get_value"
           => /\ ~last'.ok <=> 8 * Len(d) - Cursor(reader) < last'.n
              /\ ~last'.ok => reader' = reader
      /\ last'.op = "get_aligned"
           => /\ ~last'.ok <=> Len(d) - AlignedAt(reader) < last'.n
              /\ ~last'.ok => reader' = reader ]_vars

\* A get_aligned has failed in the middle of a byte, with data left.
ReaderUnderrunWitness ==
  /\ last.op = "get_aligned"
  /\ ~last.ok
  /\ reader.bit_offset % 8 # 0
  /\ Cursor(reader) < 8 * reader.total_bytes

\* C8: a failed get_vlq_int or get_zigzag_vlq_int leaves byte_offset and
\* bit_offset as they were before the call.
FailedVlqKeepsCursor ==
  [][ (last'.op \in {"get_vlq_int", "get_zigzag_vlq_int"} /\ ~last'.ok)
        => (reader'.byte_offset = reader.byte_offset
              /\ reader'.bit_offset = reader.bit_offset) ]_vars

-----------------------------------------------------------------------------
(* Reserved bytes and their patches.                                       *)

\* The writer after the logged call e.
Apply(w, e) ==
  CASE e.op = "put_value" -> put_value(w, e.v, e.n).w
    [] e.op = "put_aligned" -> put_aligned(w, e.v, e.n).w
    [] e.op = "put_vlq_int" -> put_vlq_int(w, e.v).w
    [] e.op = "skip" -> skip(w, e.n).w
    [] e.op = "get_next_byte_ptr" -> fill_next_byte_ptr(w, e.n, e.v).w
    [] e.op = "flush" -> flush(w).w
    [] e.op = "put_aligned_offset" -> put_aligned_offset(w, e.v, e.n, e.off).w

RECURSIVE Replay(_, _)
\* The writer w after the calls of log, in order.
Replay(w, log) ==
  IF log = <<>> THEN w ELSE Replay(Apply(w, Head(log)), Tail(log))

\* The buffer consume() returns after the calls of log on a fresh writer.
Consumed(log) == consume(Replay(BitWriter_new(writer.max_bytes), log)).ret

Front(log) == SubSeq(log, 1, Len(log) - 1)

\* The log without its last call, its k-th call (a skip) made a
\* get_next_byte_ptr whose slice is filled with v.
ThroughPtr(log, k, v) ==
  [i \in 1..(Len(log) - 1) |->
     IF i = k THEN [log[i] EXCEPT !.op = "get_next_byte_ptr", !.v = v] ELSE log[i]]

\* The last call patched the region the k-th call reserved, and only writes
\* and flushes came between.
PatchOf(k) ==
  LET p == wlog[Len(wlog)] IN
  /\ p.op = "put_aligned_offset"
  /\ p.ok
  /\ wlog[k].op = "skip"
  /\ wlog[k].ret = p.off
  /\ wlog[k].n = p.n
  /\ \A i \in (k + 1)..(Len(wlog) - 1) :
       wlog[i].op \in {"put_value", "put_aligned", "put_vlq_int", "flush"}

\* C9: after skip(n) returned o, later successful writes and flushes, and
\* put_aligned_offset(val, n, o), the buffer consume() returns has the n low
\* bytes of val at [o, o+n) and is elsewhere what it would be without the patch;
\* filling the slice of get_next_byte_ptr(n) instead gives the same buffer.
PatchThenRead ==
  (mode = "patch" /\ phase = "write")
    => \A k \in 1..(Len(wlog) - 1) :
         PatchOf(k)
           => LET p == wlog[Len(wlog)]
                  got == consume(writer).ret
                  plain == Consumed(Front(wlog))
              IN  /\ Len(got) = Len(plain)
                  /\ \A i \in 1..Len(got) :
                       got[i] = IF i > p.off /\ i <= p.off + p.n
                                THEN ByteOf(p.v, i - p.off - 1)
                                ELSE plain[i]
                  /\ got = Consumed(ThroughPtr(wlog, k, p.v))

\* Two bytes reserved, a value written after them, and the patch.
PatchThenReadWitness ==
  /\ mode = "patch"
  /\ phase = "write"
  /\ Len(wlog) = 3
  /\ PatchOf(1)
  /\ wlog[1].n = 2
  /\ wlog[2].op = "put_value"
  /\ wlog[3].v = FromNat(43981)

-----------------------------------------------------------------------------
(* put_value at the end of the writer.                                     *)

\* C10: put_value(v, n) returns false exactly when byte_offset*8 + bit_offset +
\* n exceeds max_bytes*8, and then the buffer, byte_offset, bit_offset and
\* buffered_values are unchanged: a narrower put_value that fits succeeds
\* afterwards and lands at the same bit position.
PutValueFailsSoftly ==
  [][ last'.op = "put_value"
        => /\ ~last'.ok <=> Cursor(writer) + last'.n > 8 * writer.max_bytes
           /\ ~last'.ok
                => /\ writer' = writer
                   /\ ~last'.panic
                   /\ \A in \in ValueInputs :
                        Cursor(writer) + in[2] <= 8 * writer.max_bytes
                          => LET o == put_value(writer', in[1], in[2])
                             IN  o.ok /\ Cursor(o.w) = Cursor(writer) + in[2] ]_vars

\* put_value has been refused past the 64-bit boundary, in the middle of a byte.
PutValueFailsSoftlyWitness ==
  /\ last.op = "put_value"
  /\ ~last.ok
  /\ writer.byte_offset = 8
  /\ writer.bit_offset % 8 # 0

-----------------------------------------------------------------------------
(* Writes that fit.                                                        *)

\* The bytes committed once the call c has been made on w: the pending bits
\* are rounded up to a byte where the call aligns.
CommittedWith(w, c) ==
  CASE c.op = "put_value" -> (Cursor(w) + c.n + 7) \div 8
    [] c.op = "flush" -> (Cursor(w) + 7) \div 8
    [] OTHER -> (Cursor(w) + 7) \div 8 + Needed(c)

\* C11: on a writer with max_bytes = k, a put_value, put_aligned, skip,
\* get_next_byte_ptr, put_vlq_int or flush after which the committed bytes do
\* not exceed k reports success, also when it fills the buffer exactly and
\* when k = 0.
FittingWritesSucceed ==
  [][ (/\ last'.op \in {"put_value", "put_aligned", "skip", "get_next_byte_ptr",
                        "put_vlq_int", "flush"}
       /\ CommittedWith(writer, last') <= writer.max_bytes)
        => (last'.ok /\ ~last'.panic) ]_vars

-----------------------------------------------------------------------------
(* consume().                                                              *)

\* C12: consume() returns a buffer of bytes_written() bytes, the committed
\* bytes followed by the pending bits zero-padded to a byte, and leaves the
\* writer in the state of BitWriter::new(max_bytes), so that what follows
\* behaves as on a fresh writer.
ConsumeReturnsWritten ==
  [][ last'.op = "consume"
        => LET out == as_ref(reader'.buffer)
               pending == (writer.bit_offset + 7) \div 8
               bits == writer.buffered_values \cap LowBits(writer.bit_offset)
           IN  /\ ~last'.panic
               /\ Len(out) = bytes_written(writer)
               /\ Len(out) = writer.byte_offset + pending
               /\ \A i \in 1..writer.byte_offset : out[i] = writer.buffer[i]
               /\ \A i \in 1..pending : out[writer.byte_offset + i] = ByteOf(bits, i - 1)
               /\ writer'.byte_offset = 0
               /\ writer'.bit_offset = 0
               /\ writer'.buffered_values = Zero64
               /\ writer'.buffer = Zeros(writer.max_bytes)
               /\ writer' = BitWriter_new(writer.max_bytes) ]_vars

\* A writer with bits pending after two other writes has been consumed.
ConsumeReturnsWrittenWitness ==
  /\ last.op = "consume"
  /\ Len(expect) = 3
  /\ expect[3].op = "put_value"
  /\ expect[3].to % 8 # 0
  /\ reader.total_bytes = (expect[3].to + 7) \div 8
  /\ writer = BitWriter_new(RoundTripBytes)

-----------------------------------------------------------------------------
(* The scenario of test_put_get_bool.                                      *)

\* The log holds BoolBits successful put_value(_, 1) calls whose values are,
\* in order, first, other, first, other, ...
Alternating(log, first, other) ==
  /\ Len(log) >= BoolBits
  /\ \A k \in 1..BoolBits :
       /\ log[k].op = "put_value"
       /\ log[k].n = 1
       /\ log[k].ok
       /\ log[k].v = IF k % 2 = 1 THEN first ELSE other

\* The BoolBits single bits are written and flushed.
Flushed == mode = "bool" /\ phase = "write" /\ Len(wlog) = BoolBits + 1

\* The BoolBits single bits have been read back from the consumed buffer.
ReadBack == mode = "bool" /\ phase = "read" /\ Len(rlog) >= BoolBits

\* C13 as stated: writing 1,0,1,0,1,0,1,0 with put_value(_, 1) into a fresh
\* 8-byte writer and flushing leaves byte 0 equal to 0b10101010, and the eight
\* single bits read back are 1,0,1,0,1,0,1,0.
BoolScenarioAsStated ==
  /\ (Flushed /\ Alternating(wlog, {0}, {})) => writer.buffer[1] = 170
  /\ (ReadBack /\ Alternating(expect, {0}, {}))
       => \A k \in 1..BoolBits : rlog[k].ok /\ rlog[k].ret = expect[k].v

\* C13, amended: the first bit written is bit 0 of the byte.  Writing
\* 0,1,0,1,0,1,0,1 and flushing leaves byte 0 equal to 0b10101010, writing
\* 1,0,1,0,1,0,1,0 leaves it equal to 0b01010101, and in both cases (in fact for
\* any eight bits) the eight single bits read back are the bits written, in
\* order.
BoolScenario ==
  /\ (Flushed /\ Alternating(wlog, {}, {0})) => writer.buffer[1] = 170
  /\ (Flushed /\ Alternating(wlog, {0}, {})) => writer.buffer[1] = 85
  /\ Flushed => \A j \in 0..(BoolBits - 1) : (j \in BitsOfByte(writer.buffer[1])) = (wlog[j + 1].v = {0})
  /\ ReadBack => \A k \in 1..BoolBits : rlog[k].ok /\ rlog[k].ret = expect[k].v

\* 0,1,0,1,0,1,0,1 has been written, flushed, consumed and read back.
BoolScenarioWitness ==
  /\ ReadBack
  /\ Alternating(expect, {}, {0})
  /\ Len(expect) = BoolBits + 1
  /\ as_ref(reader.buffer) = <<170>>

-----------------------------------------------------------------------------
(* The VLQ wire format.                                                    *)

\* The bits of v set, as a count of positions: 0 for 0, else the top bit + 1.
BitLength(v) == IF v = Zero64 THEN 0 ELSE (CHOOSE j \in v : \A i \in v : i <= j) + 1

\* Bits [7i, 7i+7) of v, as a number.
Group(v, i) == ByteOf(Shr(v, 7 * i) \cap LowBits(7), 0)

\* C14: put_vlq_int(v) with enough room appends, at the next byte boundary,
\* exactly max(1, ceil(bitlength(v)/7)) bytes; byte i carries bits [7i, 7i+7)
\* of v in its low 7 bits and has bit 7 set except on the last byte; there is
\* no cap, values of 2^35 and above take 6 to 10 bytes; 137 is 0x89, 0x01.
VlqWireFormat ==
  [][ (/\ last'.op = "put_vlq_int"
       /\ (Cursor(writer) + 7) \div 8 + VlqLen(last'.v) <= writer.max_bytes)
        => LET v == last'.v
               at == (Cursor(writer) + 7) \div 8
               len == IF BitLength(v) = 0 THEN 1 ELSE (BitLength(v) + 6) \div 7
           IN  /\ last'.ok
               /\ ~last'.panic
               /\ writer'.byte_offset = at + len
               /\ writer'.bit_offset = 0
               /\ \A i \in 0..(len - 1) :
                    writer'.buffer[at + i + 1]
                      = Group(v, i) + (IF i < len - 1 THEN 128 ELSE 0)
               /\ \A i \in 1..writer.byte_offset : writer'.buffer[i] = writer.buffer[i]
               /\ (\E j \in v : j >= 35) => len \in 6..10
               /\ v = FromNat(137)
                    => SubSeq(writer'.buffer, at + 1, at + len) = <<137, 1>> ]_vars

\* 2^64 - 1 has been written as ten bytes after another value.
VlqWireFormatWitness ==
  /\ mode = "wire"
  /\ Len(wlog) >= 2
  /\ wlog[2].op = "put_vlq_int"
  /\ wlog[2].v = AllOnes64
  /\ wlog[2].ok
  /\ wlog[2].to = wlog[2].from + 80

-----------------------------------------------------------------------------
(* The bit-packed layout.                                                  *)

\* Stream bit p of a byte sequence: bit (p mod 8) of byte floor(p / 8).
StreamBit(bytes, p) == (p % 8) \in BitsOfByte(bytes[(p \div 8) + 1])

\* The widths of the first k calls of log, added up.
RECURSIVE WidthsBefore(_, _)
WidthsBefore(log, k) == IF k = 0 THEN 0 ELSE WidthsBefore(log, k - 1) + log[k].n

\* C15: after successful put_value(v_i, n_i) calls on a fresh writer and a
\* flush(), bit j of v_i is stream bit (n_1 + ... + n_(i-1)) + j of the buffer,
\* with no padding between the values and zeros from the end of the last value
\* on, and bytes_written() is ceil((n_1 + ... + n_k) / 8); also when the bit
\* count crosses a multiple of 64.
BitPackedLayout ==
  (mode = "roundtrip" /\ phase = "write" /\ AllOk(wlog) /\ OnlyOps(wlog, {"put_value"}))
    => LET total == WidthsBefore(wlog, Len(wlog))
           f == flush(writer)
           start(i) == WidthsBefore(wlog, i - 1)
       IN  /\ bytes_written(writer) = (total + 7) \div 8
           /\ ~f.panic
           /\ f.w.byte_offset = (total + 7) \div 8
           /\ \A p \in 0..(8 * writer.max_bytes - 1) :
                StreamBit(f.w.buffer, p)
                  <=> \E i \in 1..Len(wlog) :
                        /\ start(i) <= p
                        /\ p < start(i) + wlog[i].n
                        /\ (p - start(i)) \in wlog[i].v

\* Three values of 32, 31 and 3 bits: the second straddles bit 64.
BitPackedLayoutWitness ==
  /\ mode = "roundtrip"
  /\ phase = "write"
  /\ Len(wlog) = 3
  /\ AllOk(wlog)
  /\ OnlyOps(wlog, {"put_value"})
  /\ wlog[1].n = 32
  /\ wlog[2].n = 31
  /\ wlog[2].v # Zero64
  /\ wlog[3].n = 3
  /\ wlog[3].v # Zero64
  /\ writer.byte_offset = 8
  /\ writer.bit_offset = 2

-----------------------------------------------------------------------------
(* The reader against the bytes of its buffer.                             *)

\* The unsigned integer of stream bits [p, p + n) of bytes, LSB first.
StreamValue(bytes, p, n) == {j \in 0..(n - 1) : StreamBit(bytes, p + j)}

\* C16: on any buffer, a get_value(n) with n <= 32 succeeds exactly when the
\* bits consumed so far plus n do not exceed 8 * buffer length, and then
\* returns stream bits [p, p + n), LSB first, with all higher bits zero, and
\* has consumed n bits; also across the end of the 8-byte window and in a
\* window of fewer than 8 bytes.
GetValueReference ==
  [][ last'.op = "get_value"
        => LET d == as_ref(reader.buffer)
               p == Cursor(reader)
               n == last'.n
           IN  /\ ~last'.panic
               /\ last'.ok <=> p + n <= 8 * Len(d)
               /\ last'.ok => /\ last'.ret = StreamValue(d, p, n)
                              /\ Cursor(reader') = p + n ]_vars

\* A read has straddled the end of the first window of the 10-byte buffer,
\* leaving the cursor in a window of two bytes.
GetValueReferenceWitness ==
  /\ last.op = "get_value"
  /\ last.ok
  /\ reader.total_bytes = 10
  /\ reader.byte_offset = 8
  /\ reader.bit_offset \in 1..6
  /\ last.n > reader.bit_offset
  /\ last.ret \cap LowBits(last.n - reader.bit_offset) # Zero64
  /\ last.ret \ LowBits(last.n - reader.bit_offset) # Zero64

\* C17: a successful get_aligned(w) with the cursor at bit p returns the
\* little-endian integer of buffer bytes [b, b + w), b = ceil(p / 8), and leaves
\* the cursor at bit 8 * (b + w) with bit_offset = 0: the next get_value starts
\* at bit 0 of byte b + w.
GetAlignedReference ==
  [][ (last'.op = "get_aligned" /\ last'.ok)
        => LET d == as_ref(reader.buffer)
               b == (Cursor(reader) + 7) \div 8
               w == last'.n
           IN  /\ last'.ret = StreamValue(d, 8 * b, 8 * w)
               /\ \A k \in 0..(w - 1) : ByteOf(last'.ret, k) = d[b + k + 1]
               /\ Cursor(reader') = 8 * (b + w)
               /\ reader'.bit_offset = 0
               /\ \A n \in ReadWidths :
                    8 * (b + w) + n <= 8 * Len(d)
                      => LET g == get_value(reader', n)
                         IN  g.ok /\ g.ret = StreamValue(d, 8 * (b + w), n) ]_vars

\* get_aligned(2) after three bits of the 10-byte buffer: bytes 1 and 2.
GetAlignedReferenceWitness ==
  /\ last.op = "get_aligned"
  /\ last.ok
  /\ last.n = 2
  /\ last.ret = FromNat(2 + 256 * 3)
  /\ reader.total_bytes = 10
  /\ reader.byte_offset = 3
  /\ reader.bit_offset = 0

-----------------------------------------------------------------------------
(* Writes that leave the cursor alone, and flush.                          *)

\* C18: put_aligned_offset(val, n, offset) returns false exactly when offset +
\* n > max_bytes, and then changes nothing; otherwise it returns true, puts the
\* n low-order bytes of val at [offset, offset + n) and leaves byte_offset,
\* bit_offset, buffered_values and every other byte of the buffer as they
\* were: the pending bits are not flushed.
PatchKeepsCursor ==
  [][ last'.op = "put_aligned_offset"
        => LET n == last'.n
               off == last'.off
           IN  /\ ~last'.panic
               /\ ~last'.ok <=> off + n > writer.max_bytes
               /\ ~last'.ok => writer' = writer
               /\ last'.ok
                    => /\ \A i \in 1..writer.max_bytes :
                            writer'.buffer[i] = IF i > off /\ i <= off + n
                                                THEN ByteOf(last'.v, i - off - 1)
                                                ELSE writer.buffer[i]
                       /\ writer'.byte_offset = writer.byte_offset
                       /\ writer'.bit_offset = writer.bit_offset
                       /\ writer'.buffered_values = writer.buffered_values
                       /\ writer'.max_bytes = writer.max_bytes ]_vars

\* A patch has been written while bits were pending.
PatchKeepsCursorWitness ==
  /\ last.op = "put_aligned_offset"
  /\ last.ok
  /\ last.n = 2
  /\ writer.bit_offset > 0
  /\ writer.buffered_values # Zero64
  /\ writer.buffer[last.off + 1] = 16

\* C19: get_byte_offset() is byte_offset + floor(bit_offset / 8), the index of
\* the byte that holds the next unread bit, and 0 on a reader just created.
ByteOffsetOfCursor ==
  /\ get_byte_offset(reader) = reader.byte_offset + (reader.bit_offset \div 8)
  /\ (phase = "read" /\ last.op = "new") => get_byte_offset(reader) = 0

\* C20: after flush() bit_offset = 0, buffered_values = 0, byte_offset is
\* bytes_written() before the call, the ceil(bit_offset / 8) bytes from the old
\* byte_offset on hold the pending bits with zero padding and no other byte has
\* changed; with no bits pending flush() changes nothing, so that a second
\* flush() leaves the state of the first.
FlushCommits ==
  [][ last'.op = "flush"
        => LET pending == (writer.bit_offset + 7) \div 8
               bits == writer.buffered_values \cap LowBits(writer.bit_offset)
           IN  /\ ~last'.panic
               /\ writer'.bit_offset = 0
               /\ writer'.buffered_values = Zero64
               /\ writer'.byte_offset = bytes_written(writer)
               /\ writer'.byte_offset = writer.byte_offset + pending
               /\ \A i \in 1..writer.max_bytes :
                    writer'.buffer[i]
                      = IF i > writer.byte_offset /\ i <= writer.byte_offset + pending
                        THEN ByteOf(bits, i - writer.byte_offset - 1)
                        ELSE writer.buffer[i]
               /\ writer.bit_offset = 0 => writer' = writer
               /\ flush(writer').w = writer'
               /\ ~flush(writer').panic ]_vars

\* Seven pending bits have been flushed into the second byte of a writer.
FlushCommitsWitness ==
  /\ last.op = "flush"
  /\ writer.byte_offset = 2
  /\ writer.bit_offset = 0
  /\ writer.buffer[2] = 127

-----------------------------------------------------------------------------
(* memory.rs: the pool's accounting and the mutable buffer.                *)

\* The capacities of the first k allocations of an arena, added up: the value
\* cur_bytes_allocated should have had after the k-th call.
RECURSIVE CapacitiesBefore(_, _)
CapacitiesBefore(arena, k) ==
  IF k = 0 THEN 0 ELSE CapacitiesBefore(arena, k - 1) + arena[k].capacity

\* C21: after any sequence of acquire and consume calls, cur_bytes_allocated is
\* the sum of the capacities of all allocations made so far (each call adds its
\* allocation's capacity and none decreases it), and max_bytes_allocated is the
\* largest value cur_bytes_allocated has ever had, never decreases and is never
\* smaller than cur_bytes_allocated.
PoolAccounting ==
  [][ last'.op \in {"acquire", "pool_consume"}
        => LET made == Len(pool'.arena)
               added == pool'.arena[made].capacity
           IN  /\ made = Len(pool.arena) + 1
               /\ SubSeq(pool'.arena, 1, made - 1) = pool.arena
               /\ cur_allocated(pool') = cur_allocated(pool) + added
               /\ cur_allocated(pool') >= cur_allocated(pool)
               /\ cur_allocated(pool') = CapacitiesBefore(pool'.arena, made)
               /\ \A k \in 0..made : max_allocated(pool') >= CapacitiesBefore(pool'.arena, k)
               /\ \E k \in 0..made : max_allocated(pool') = CapacitiesBefore(pool'.arena, k)
               /\ max_allocated(pool') >= max_allocated(pool)
               /\ max_allocated(pool') >= cur_allocated(pool') ]_vars

\* A vector with spare capacity has been consumed after two other allocations.
PoolAccountingWitness ==
  /\ last.op = "pool_consume"
  /\ Len(pool.arena) = 3
  /\ pool.arena[3].capacity > Len(pool.arena[3].data)
  /\ pool.arena[1].capacity > 0
  /\ cur_allocated(pool) = max_allocated(pool)
  /\ cur_allocated(pool) >= 6

-----------------------------------------------------------------------------
(* reset.                                                                  *)

\* C22: from any reader state, reset(b) leaves the reader in the state
\* BitReader::new(b) produces: byte_offset = 0, bit_offset = 0, total_bytes the
\* length of b, buffered_values the first min(8, length) bytes of b; every
\* read that follows returns what it returns on a new reader over b.
ResetAsNew ==
  [][ last'.op = "reset"
        => /\ reader'.buffer.start = 0
           /\ reader'.buffer.len = last'.n
           /\ Len(reader'.buffer.data) = last'.n
           /\ reader'.byte_offset = 0
           /\ reader'.bit_offset = 0
           /\ reader'.total_bytes = last'.n
           /\ reader'.buffered_values
                = StreamValue(reader'.buffer.data, 0, 8 * Min(8, last'.n))
           /\ reader' = BitReader_new(reader'.buffer)
           /\ \A n \in ReadWidths :
                n <= 8 * last'.n
                  => get_value(reader', n).ret = StreamValue(reader'.buffer.data, 0, n) ]_vars

\* The reader has been reset to the 12-byte buffer.
ResetAsNewWitness ==
  /\ last.op = "reset"
  /\ reader.total_bytes = 12
  /\ reader.byte_offset = 0
  /\ reader.buffered_values = FromNat(10) \cup {34, 36, 49, 50, 51, 52}

-----------------------------------------------------------------------------
(* The mutable buffer.                                                     *)

-----------------------------------------------------------------------------
(* The cursor invariants.                                                  *)

\* C24: in every state a writer created by BitWriter::new reaches, whatever
\* calls succeeded or failed, 0 <= bit_offset < 64, byte_offset * 8 +
\* bit_offset <= max_bytes * 8 and buffered_values has no bit at position
\* bit_offset or above; so the assertion of flush and the closing assertion of
\* put_value hold whenever they are evaluated.
WriterCursorInvariant ==
  /\ writer.bit_offset \in 0..63
  /\ writer.byte_offset >= 0
  /\ Cursor(writer) <= writer.max_bytes * 8
  /\ writer.buffered_values \subseteq LowBits(writer.bit_offset)
  /\ Len(writer.buffer) = writer.max_bytes
  /\ ~flush(writer).panic
  /\ \A in \in ValueInputs : ~put_value(writer, in[1], in[2]).panic

\* A 9-byte writer past the 64-bit boundary with bits pending, after a call
\* that failed for lack of room.
WriterCursorInvariantWitness ==
  /\ mode = "fill"
  /\ writer.max_bytes = 9
  /\ writer.byte_offset = 8
  /\ writer.bit_offset > 0
  /\ ~last.ok
  /\ ~last.panic


\* C25: in every state a reader reaches by new, reset, get_value, get_aligned,
\* get_vlq_int and get_zigzag_vlq_int, whatever calls succeeded or failed,
\* 0 <= bit_offset < 64, byte_offset * 8 + bit_offset <= total_bytes * 8 and
\* buffered_values is the little-endian integer of the buffer bytes
\* [byte_offset, min(byte_offset + 8, total_bytes)); so total_bytes -
\* byte_offset does not underflow and read_num_bytes is never asked for more
\* bytes than the slice it is given holds.
ReaderCursorInvariant ==
  LET in_window == Min(reader.total_bytes - reader.byte_offset, 8) IN
  /\ reader.bit_offset \in 0..63
  /\ reader.byte_offset >= 0
  /\ Cursor(reader) <= reader.total_bytes * 8
  /\ reader.total_bytes = reader.buffer.len
  /\ reader.total_bytes - reader.byte_offset >= 0
  /\ in_window <= Len(as_ref(start_from(reader.buffer, reader.byte_offset)))
  /\ reader.buffered_values
       = StreamValue(reader.buffer.data, 8 * (reader.buffer.start + reader.byte_offset),
                     8 * in_window)
  /\ \A n \in ReadWidths : ~get_value(reader, n).panic
  /\ \A n \in ReadBytes : ~get_aligned(reader, n).panic

\* A reader in the second window of the 12-byte buffer, inside a byte, after
\* a read that failed.
ReaderCursorInvariantWitness ==
  /\ mode = "reset"
  /\ ~last.ok
  /\ reader.total_bytes = 12
  /\ reader.byte_offset = 8
  /\ reader.bit_offset > 0
  /\ reader.buffered_values # Zero64


-----------------------------------------------------------------------------
(* Failed byte-aligned calls.                                              *)

\* C26: a skip, get_next_byte_ptr or put_aligned that returns its failure
\* value for lack of room has still flushed the pending bits: afterwards
\* bit_offset = 0, buffered_values = 0, byte_offset is bytes_written() before
\* the call and the pending bits are in the buffer, so the next put_value
\* starts on a byte boundary.
FailedAlignedCallFlushes ==
  [][ (last'.op \in {"skip", "get_next_byte_ptr", "put_aligned"} /\ ~last'.ok /\ ~last'.panic)
        => /\ writer.byte_offset + ceil(writer.bit_offset, 8) + last'.n > writer.max_bytes
           /\ writer'.bit_offset = 0
           /\ writer'.buffered_values = Zero64
           /\ writer'.byte_offset = bytes_written(writer)
           /\ writer'.max_bytes = writer.max_bytes
           /\ \A k \in 1..writer.max_bytes :
                writer'.buffer[k]
                  = IF k > writer.byte_offset /\ k <= bytes_written(writer)
                    THEN ByteOf(writer.buffered_values, k - writer.byte_offset - 1)
                    ELSE writer.buffer[k]
           /\ \A in \in ValueInputs :
                LET o == put_value(writer', in[1], in[2]) IN
                (o.ok /\ ~o.panic) => Cursor(o.w) = 8 * bytes_written(writer) + in[2] ]_vars

\* A put_aligned failed on a 2-byte writer and left the seven pending bits as
\* the first byte.
FailedAlignedCallFlushesWitness ==
  /\ last.op = "put_aligned"
  /\ ~last.ok
  /\ ~last.panic
  /\ writer.max_bytes = 2
  /\ writer.byte_offset = 1
  /\ writer.bit_offset = 0
  /\ writer.buffer = <<127, 0>>


-----------------------------------------------------------------------------
(* ceil.                                                                   *)

\* C27: ceil(value, divisor) is the ceiling of value / divisor, the smallest
\* integer r with r * divisor >= value, for every value, negative ones
\* included, and every positive divisor.
CeilIsCeiling ==
  last.op = "ceil"
    => /\ arith.result * arith.divisor >= arith.value
       /\ (arith.result - 1) * arith.divisor < arith.value

=============================================================================
